---- MODULE Spec2Model ----
(***************************************************************************)
(* Vault backup sidecar: the watcher marks changes in the state store, the *)
(* debounce scheduler and the other trigger sources race for the guard,    *)
(* and the holder of the guard runs the on_changes callback, which runs    *)
(* one backup cycle (commit stage, then push stage) and notifies.          *)
(*                                                                         *)
(* __main__.py (state files, on_changes, wiring) is modelled from its      *)
(* source.  vault_backup.watcher and vault_backup.backup are imported by   *)
(* __main__.py but their source is not available; VaultWatcher and         *)
(* run_backup are modelled from sections 3 to 5 of the design              *)
(* specification.                                                          *)
(***************************************************************************)
EXTENDS Integers, FiniteSets, Sequences, TLC

\* ---------------------------------------------------------------- bounds
\* Clock values run from 1 to MaxTime (0 is the "never" default).
MaxTime == 4
\* Number of manual (administrative) triggers in one run.
MaxManual == 1
\* Number of starts of the sidecar in one run.
MaxStarts == 2
\* Longest source identifier given to detect_source.
MaxLen == 41
\* Longest file content held by a commit or a snapshot.
MaxContent == 2
\* Most commits printed by one git log call.
MaxCommits == 2
\* Most snapshots listed by one restic snapshots call.
MaxSnapshots == 2
\* Most lines printed by one restic ls call.
MaxLines == 2
\* Number of signals delivered to the process in one run.
MaxSignals == 2
\* config.debounce_seconds: the quiet period of the debounce timer.
debounce_seconds == 2
\* Period of the independent periodic tick.
TickPeriod == 2
\* Minimum age of last_backup before the periodic tick fires a cycle.
PushInterval == 1

\* ------------------------------------------------------------ vocabulary
\* The trigger sources; each runs in its own execution context.
Ctx == {"debounce", "periodic", "manual"}

\* Paths of filesystem events: one note and the ignorable paths.
Paths == {"notes/a.md", ".obsidian/workspace.json", ".trash/old.md",
          ".DS_Store", ".backup-write-test"}

\* GITIGNORE_CONTENT: workspace files, trash, system files, the write probe.
\* The watcher's ignore filter discards the same paths.
Ignored(path) == path \in {".obsidian/workspace.json", ".trash/old.md",
                           ".DS_Store", ".backup-write-test"}

\* A context that is not inside a cycle carries no result.
NoResult == [success |-> FALSE, backup_created |-> FALSE, error |-> "unset"]

\* BackupCycleResult: error is "none" iff success.
Result(ok, created, err) == [success |-> ok, backup_created |-> created, error |-> err]

\* Per-cycle bookkeeping of one run_backup call (what the cycle did, and what
\* the state store held when it started).
NoCycle == [committed |-> FALSE, pushInvoked |-> FALSE, raised |-> FALSE,
            pendAtStart |-> FALSE, evDuring |-> FALSE, lbAtStart |-> 0,
            commitsAtStart |-> 0, commitAt |-> 0,
            notifyCalls |-> 0, delivered |-> TRUE]

VARIABLES
    now,              \* wall clock
    dry_run,          \* config.dry_run
    last_change,      \* state file last_change
    pending_changes,  \* state file pending_changes
    last_commit,      \* state file last_commit
    last_backup,      \* state file last_backup
    dirty,            \* the vault has changes not yet in a commit
    commits,          \* number of commits in the local history
    snapshots,        \* number of snapshots in the remote store
    sched,            \* debounce scheduler state: Idle, Waiting, Firing
    deadline,         \* expiry time of the armed debounce timer, 0 = none
    nextTick,         \* time of the next periodic tick
    lock,             \* holder of the guard, "none" when free
    pc,               \* position of each trigger context
    cyc,              \* per-context bookkeeping of the running cycle
    result,           \* per-context BackupCycleResult once run_backup returned
    firedSinceEvent,  \* debounce expiries since the last accepted event
    rearmed,          \* the timer armed last was re-armed by a later event
    manualCount,      \* manual triggers issued so far
    dropped,          \* a trigger was dropped while the running cycle held the guard
    proc,             \* the sidecar process: _run's position, signal handling
    boot,             \* one start of the sidecar: inputs and the steps taken
    files,            \* the files of the state directory
    arg,              \* detect_source: the source identifier and its class
    cli,              \* one run of the restore command
    listing           \* one call of a listing function of restore.py

vars == <<now, dry_run, last_change, pending_changes, last_commit, last_backup,
          dirty, commits, snapshots, sched, deadline, nextTick, lock, pc, cyc,
          result, firedSinceEvent, rearmed, manualCount, dropped,
          proc, boot, files, arg, cli, listing>>

\* The variables outside the running sidecar's loop.
offline == <<boot, files, arg, cli, listing>>

store == <<last_change, pending_changes, last_commit, last_backup>>
repo == <<dirty, commits, snapshots>>
timer == <<sched, deadline, firedSinceEvent, rearmed>>
cycle == <<pc, cyc, result>>

\* The signals _run installs a handler for.
Signals == {"SIGTERM", "SIGINT"}

\* The process right after watcher.start() returned: no handler installed yet.
Started == [phase |-> "started", handlers |-> {}, shutdown_event |-> FALSE,
            stopped |-> FALSE, watcherStops |-> 0, healthStops |-> 0,
            signals |-> 0, abandoned |-> FALSE]

\* The process blocked in watcher.wait() with both handlers installed and no
\* signal received yet.
Serving == [phase |-> "waiting", handlers |-> Signals, shutdown_event |-> FALSE,
            stopped |-> FALSE, watcherStops |-> 0, healthStops |-> 0,
            signals |-> 0, abandoned |-> FALSE]

\* The sidecar process does not exist.
NotRunning == [phase |-> "off", handlers |-> {}, shutdown_event |-> FALSE,
               stopped |-> FALSE, watcherStops |-> 0, healthStops |-> 0,
               signals |-> 0, abandoned |-> FALSE]

\* The environment variables validate_environment requires.
Required == {"RESTIC_REPOSITORY", "RESTIC_PASSWORD"}

\* The marker files of the state directory.
Markers == {"last_commit", "last_backup", "last_change", "pending_changes"}

\* initialize_state_dir.defaults
defaults == [last_commit |-> "0", last_backup |-> "0", last_change |-> "0",
             pending_changes |-> "false"]

\* A state directory without marker files.
NoFiles == [m \in Markers |-> "absent"]

\* No start of the sidecar under way.
NoBoot == [phase |-> "off", env |-> [v \in Required |-> "unset"], vault |-> "ok",
           gitOk |-> TRUE, restic |-> "ok", steps |-> {}, status |-> "none",
           warned |-> FALSE, starts |-> 0]

\* No source identifier classified yet.
NoArg == [phase |-> "off", source |-> <<>>, kind |-> "none"]

\* A file that does not exist, and a file holding content.
Absent == [exists |-> FALSE, content |-> <<>>]
File(content) == [exists |-> TRUE, content |-> content]

\* No restore command started.
NoCli == [phase |-> "off", source |-> <<>>, kind |-> "none", vaultOk |-> TRUE,
          gitRaw |-> Absent, resticRaw |-> Absent, calls |-> <<>>,
          stdout |-> "", stderr |-> "", status |-> "none",
          target |-> Absent, before |-> Absent, parentMade |-> FALSE,
          writes |-> 0]

\* No listing function called yet.
NoListing == [phase |-> "off"]

\* No start, no state directory, no restore command in progress.
OfflineIdle ==
    /\ boot = NoBoot
    /\ files = NoFiles
    /\ arg = NoArg
    /\ cli = NoCli
    /\ listing = NoListing

\* The process has not ended.
Alive == proc.phase \notin {"exited", "killed", "interrupted"}

\* The watcher is running and has not been asked to stop.
Accepting == Alive /\ ~proc.stopped

\* initialize_state_dir: the four markers default to "0", "0", "0", "false".
Constructed ==
    /\ now = 1
    /\ dry_run \in BOOLEAN
    /\ last_change = 0
    /\ pending_changes = FALSE
    /\ last_commit = 0
    /\ last_backup = 0
    /\ dirty = FALSE
    /\ commits = 0
    /\ snapshots = 0
    /\ sched = "Idle"
    /\ deadline = 0
    /\ nextTick = 1 + TickPeriod
    /\ lock = "none"
    /\ pc = [c \in Ctx |-> "idle"]
    /\ cyc = [c \in Ctx |-> NoCycle]
    /\ result = [c \in Ctx |-> NoResult]
    /\ firedSinceEvent = 0
    /\ rearmed = FALSE
    /\ manualCount = 0
    /\ dropped = FALSE

\* The sidecar serving: markers at their defaults, the process in watcher.wait().
Init == Constructed /\ proc = Serving /\ OfflineIdle

\* The contexts that are inside on_changes (run_backup running or returned).
Inside == {c \in Ctx : pc[c] # "idle"}

\* The contexts whose run_backup call has not returned yet.
Running == {c \in Ctx : pc[c] \in {"detect", "commit", "push"}}

\* ---------------------------------------------------------------- watcher
\* Change Watcher, one filesystem event: ignorable paths are discarded; any
\* other event writes last_change and pending_changes and signals the
\* scheduler.  The scheduler arms the timer when Idle, cancels and re-arms it
\* when Waiting, and has no transition for a signal while Firing.
\* Variant: an event received in Waiting leaves the armed timer as it is.
NewDeadlineStale == IF sched = "Waiting" THEN deadline ELSE now + debounce_seconds

\* Arming (or re-arming) the single timer: it expires one quiet period from now.
NewDeadline == now + debounce_seconds

FsEvent(path) ==
    /\ Accepting
    /\ IF Ignored(path)
       THEN UNCHANGED <<store, dirty, timer, cyc>>
       ELSE /\ last_change' = now
            /\ pending_changes' = TRUE
            /\ dirty' = TRUE
            /\ cyc' = [c \in Ctx |->
                         IF c \in Running THEN [cyc[c] EXCEPT !.evDuring = TRUE]
                         ELSE cyc[c]]
            /\ IF sched \in {"Idle", "Waiting"}
               THEN /\ sched' = "Waiting"
                    /\ deadline' = NewDeadline
                    /\ firedSinceEvent' = 0
                    /\ rearmed' = (sched = "Waiting")
               ELSE UNCHANGED timer
            /\ UNCHANGED <<last_commit, last_backup>>
    /\ UNCHANGED <<now, dry_run, offline, proc, commits, snapshots, nextTick, lock, pc, result,
                   manualCount, dropped>>

\* The clock advances by one; an armed timer and the periodic tick fire at
\* their instant, so the clock does not pass them.  The steps of _run from
\* watcher.start() to watcher.wait() take less than one unit of the clock.
Tick ==
    /\ proc.phase = "waiting"
    /\ now < MaxTime
    /\ Accepting => (~(sched = "Waiting" /\ deadline <= now) /\ nextTick > now)
    /\ now' = now + 1
    /\ UNCHANGED <<dry_run, offline, proc, store, repo, timer, nextTick, lock, cycle, manualCount,
                   dropped>>

\* ------------------------------------------------------------------ guard
\* Variant: a guard that grants every entry.
TryLockAlways == TRUE

\* Mutual-exclusion guard, tryLock: succeeds only when no cycle holds it.
TryLock == lock = "none"

\* Entering the guard from context c: the cycle's bookkeeping starts.
Enter(c) ==
    /\ lock' = c
    /\ pc' = [pc EXCEPT ![c] = "detect"]
    /\ cyc' = [cyc EXCEPT ![c] =
                 [NoCycle EXCEPT !.pendAtStart = pending_changes,
                                 !.lbAtStart = last_backup,
                                 !.commitsAtStart = commits]]

\* Variant: a trigger that finds the guard held waits for it instead of returning.
TriggerBlocking(c) ==
    IF TryLock
    THEN Enter(c) /\ UNCHANGED dropped
    ELSE /\ pc' = [pc EXCEPT ![c] = "blocked"]
         /\ UNCHANGED <<lock, cyc, dropped>>

\* A trigger from context c: it enters the guard and calls on_changes when
\* the guard is free, and is dropped (returns at once) when it is held.
Trigger(c) ==
    IF TryLock
    THEN Enter(c) /\ UNCHANGED dropped
    ELSE /\ dropped' = TRUE
         /\ UNCHANGED <<lock, pc, cyc>>

\* -------------------------------------------------------------- scheduler
\* Waiting + timer expiry -> Firing: the cycle is handed to the guard.  A
\* trigger the guard drops returns at once, so the scheduler is Idle again.
DebounceExpiry ==
    /\ Accepting
    /\ sched = "Waiting"
    /\ deadline <= now
    /\ pc["debounce"] = "idle"
    /\ Trigger("debounce")
    /\ sched' = IF TryLock THEN "Firing" ELSE "Idle"
    /\ deadline' = 0
    /\ firedSinceEvent' = firedSinceEvent + 1
    /\ UNCHANGED <<now, dry_run, offline, proc, store, repo, nextTick, result, rearmed, manualCount>>

\* The periodic tick fires a cycle when pending is set and last_backup is
\* at least PushInterval old; otherwise it only re-schedules itself.
\* Variant: the periodic tick yields to an armed debounce timer.
TickDueQuiet ==
    pending_changes /\ now - last_backup >= PushInterval /\ sched # "Waiting"

TickDue == pending_changes /\ now - last_backup >= PushInterval

PeriodicTick ==
    /\ Accepting
    /\ nextTick <= now
    /\ nextTick' = now + TickPeriod
    /\ IF pc["periodic"] = "idle" /\ TickDue
       THEN Trigger("periodic")
       ELSE UNCHANGED <<lock, pc, cyc, dropped>>
    /\ UNCHANGED <<now, dry_run, offline, proc, store, repo, timer, result, manualCount>>

\* A manual (administrative) trigger, at any time.
ManualTrigger ==
    /\ Accepting
    /\ manualCount < MaxManual
    /\ pc["manual"] = "idle"
    /\ manualCount' = manualCount + 1
    /\ Trigger("manual")
    /\ UNCHANGED <<now, dry_run, offline, proc, store, repo, timer, nextTick, result>>

\* ----------------------------------------------------------- orchestrator
\* run_backup returns res in context c (or raises, cy.raised): the callback
\* goes on to its notification branch.
Return(c, res, cy) ==
    /\ pc' = [pc EXCEPT ![c] = "returned"]
    /\ result' = [result EXCEPT ![c] = res]
    /\ cyc' = [cyc EXCEPT ![c] = cy]

\* Variant: the cycle does not look at dry_run.
DetectStageNoDry(c) ==
    /\ Alive
    /\ pc[c] = "detect"
    /\ pc' = [pc EXCEPT ![c] = IF dirty THEN "commit" ELSE "push"]
    /\ UNCHANGED <<cyc, result>>
    /\ UNCHANGED <<now, dry_run, offline, proc, store, repo, timer, nextTick, lock, manualCount, dropped>>

\* Step 1 and the start of step 2: in dry_run mode the cycle reports and
\* returns success without any mutating command; otherwise it asks whether
\* there are uncommitted changes and goes to the commit or the push stage.
DetectStage(c) ==
    /\ Alive
    /\ pc[c] = "detect"
    /\ IF dry_run
       THEN Return(c, Result(TRUE, FALSE, "none"), cyc[c])
       ELSE /\ pc' = [pc EXCEPT ![c] = IF dirty THEN "commit" ELSE "push"]
            /\ UNCHANGED <<cyc, result>>
    /\ UNCHANGED <<now, dry_run, offline, proc, store, repo, timer, nextTick, lock, manualCount, dropped>>

\* Step 2, the local commit.  A successful commit records every change made
\* up to now and writes last_commit; a failed one ends the cycle.
CommitStage(c, ok) ==
    /\ Alive
    /\ pc[c] = "commit"
    /\ IF ok
       THEN /\ commits' = commits + 1
            /\ dirty' = FALSE
            /\ last_commit' = now
            /\ pc' = [pc EXCEPT ![c] = "push"]
            /\ cyc' = [cyc EXCEPT ![c].committed = TRUE, ![c].commitAt = now]
            /\ UNCHANGED result
       ELSE /\ Return(c, Result(FALSE, FALSE, "CommitFailed"), cyc[c])
            /\ UNCHANGED <<dirty, commits, last_commit>>
    /\ UNCHANGED <<now, dry_run, offline, proc, last_change, pending_changes, last_backup,
                   snapshots, timer, nextTick, lock, manualCount,
                   dropped>>

\* Variant: every successful push reports backup_created.
PushResultAlwaysCreated(c, ok) ==
    IF ok THEN Result(TRUE, TRUE, "none") ELSE Result(FALSE, FALSE, "PushFailed")

\* The result of a cycle that reached the push stage: backup_created is
\* false when no changes existed.
PushResult(c, ok) ==
    IF ok THEN Result(TRUE, cyc[c].committed, "none")
    ELSE Result(FALSE, FALSE, "PushFailed")

\* Variant: the markers are written before the push result is looked at.
PushStageEager(c, ok) ==
    /\ Alive
    /\ pc[c] = "push"
    /\ snapshots' = IF ok THEN snapshots + 1 ELSE snapshots
    /\ last_backup' = now
    /\ pending_changes' = FALSE
    /\ Return(c, PushResult(c, ok), [cyc[c] EXCEPT !.pushInvoked = TRUE])
    /\ UNCHANGED <<now, dry_run, offline, proc, last_change, last_commit, dirty, commits, timer,
                   nextTick, lock, manualCount, dropped>>

\* Steps 3 and 4, the remote push, run whether or not step 2 committed.  On
\* success the cycle writes last_backup and clears pending_changes; on
\* failure it reports the error and leaves the commit and the store alone.
PushStage(c, ok) ==
    /\ Alive
    /\ pc[c] = "push"
    /\ IF ok
       THEN /\ snapshots' = snapshots + 1
            /\ last_backup' = now
            /\ pending_changes' = FALSE
            /\ Return(c, PushResult(c, ok), [cyc[c] EXCEPT !.pushInvoked = TRUE])
       ELSE /\ Return(c, PushResult(c, ok), [cyc[c] EXCEPT !.pushInvoked = TRUE])
            /\ UNCHANGED <<snapshots, last_backup, pending_changes>>
    /\ UNCHANGED <<now, dry_run, offline, proc, last_change, last_commit, dirty, commits, timer,
                   nextTick, lock, manualCount, dropped>>

\* An unexpected exception leaves run_backup before it has a result.
RaiseStage(c) ==
    /\ Alive
    /\ c \in Running
    /\ Return(c, NoResult, [cyc[c] EXCEPT !.raised = TRUE])
    /\ UNCHANGED <<now, dry_run, offline, proc, store, repo, timer, nextTick, lock, manualCount, dropped>>

\* Variant: every successful cycle is announced, with or without a backup.
NotificationEverySuccess(res, raisedFlag) ==
    IF raisedFlag THEN "sent_error"
    ELSE IF res.success THEN "sent_success"
    ELSE "sent_error"

\* on_changes after run_backup: success notification when a backup was
\* created, error notification when the cycle failed or raised, else none.
Notification(res, raisedFlag) ==
    IF raisedFlag THEN "sent_error"
    ELSE IF res.success /\ res.backup_created THEN "sent_success"
    ELSE IF ~res.success THEN "sent_error"
    ELSE "sent_none"

\* Variant: a notifier whose delivery failure reaches its caller.
NotifierCallRaises(delivered) == IF delivered THEN "ok" ELSE "raise"

\* Notifier.success / Notifier.error: fire-and-forget, a delivery failure is
\* swallowed and the call returns normally.
NotifierCall(delivered) == "ok"

\* Where on_changes ends, how many notifier calls it made and whether the
\* last one was delivered.  first is the branch taken after run_backup; d1
\* and d2 are the delivery outcomes of the first and the second notifier call.
\* An exception inside the try block goes to the except branch, which calls
\* notifier.error; an exception raised there leaves on_changes.
OnChangesEnd(first, raisedFlag, d1, d2) ==
    IF first = "sent_none" /\ ~raisedFlag
    THEN [at |-> "sent_none", calls |-> 0, delivered |-> TRUE]
    ELSE IF NotifierCall(d1) = "ok"
    THEN [at |-> first, calls |-> 1, delivered |-> d1]
    ELSE IF raisedFlag
    THEN [at |-> "escaped", calls |-> 1, delivered |-> FALSE]
    ELSE IF NotifierCall(d2) = "ok"
    THEN [at |-> "sent_error", calls |-> 2, delivered |-> d2]
    ELSE [at |-> "escaped", calls |-> 2, delivered |-> FALSE]

\* Variant: on_changes without its except branch.
on_changesNoExcept(c, d1, d2) ==
    /\ Alive
    /\ pc[c] = "returned"
    /\ pc' = [pc EXCEPT ![c] = IF cyc[c].raised THEN "escaped"
                               ELSE Notification(result[c], FALSE)]
    /\ UNCHANGED <<now, dry_run, offline, proc, store, repo, timer, nextTick, lock, cyc, result,
                   manualCount, dropped>>

\* The notification branch of on_changes, up to its return.
on_changes(c, d1, d2) ==
    /\ Alive
    /\ pc[c] = "returned"
    /\ LET e == OnChangesEnd(Notification(result[c], cyc[c].raised),
                             cyc[c].raised, d1, d2)
       IN /\ pc' = [pc EXCEPT ![c] = e.at]
          /\ cyc' = [cyc EXCEPT ![c].notifyCalls = e.calls,
                                ![c].delivered = e.delivered]
    /\ UNCHANGED <<now, dry_run, offline, proc, store, repo, timer, nextTick, lock, result,
                   manualCount, dropped>>

\* on_changes has returned to the guard, which releases the lock; the
\* context is idle again (the debounce scheduler goes Firing -> Idle).
Release(c) ==
    /\ Alive
    /\ pc[c] \in {"sent_success", "sent_error", "sent_none"}
    /\ pc' = [pc EXCEPT ![c] = "idle"]
    /\ result' = [result EXCEPT ![c] = NoResult]
    /\ cyc' = [cyc EXCEPT ![c] = NoCycle]
    /\ lock' = "none"
    /\ dropped' = FALSE
    /\ sched' = IF c = "debounce" /\ sched = "Firing" THEN "Idle" ELSE sched
    /\ UNCHANGED <<now, dry_run, offline, proc, store, repo, deadline, firedSinceEvent, rearmed,
                   nextTick, manualCount>>

\* ----------------------------------------------------------------- claims

\* C1: at every instant at most one backup cycle (one run_backup call made
\* through on_changes) is in progress, whatever the interleaving of debounce
\* expiry, periodic tick and manual trigger.
C1_MutualExclusion == Cardinality(Inside) <= 1

\* A trigger arrived while a cycle was running and was turned away.
C1_Witness == dropped /\ Running # {}

C3_NoChangeDropped ==
    \A c \in Ctx :
        (pc[c] = "returned" /\ cyc[c].evDuring /\ dirty) => pending_changes

\* A step in which a trigger source made its attempt.
TriggerStep ==
    \/ manualCount' # manualCount
    \/ firedSinceEvent' > firedSinceEvent
    \/ nextTick' # nextTick

\* C4: a trigger that arrives while a cycle is in progress returns at once
\* and is dropped: it starts no cycle, changes nothing of the running one, and
\* no cycle starts when the running one completes.
C4_DroppedNotQueued ==
    /\ [][(lock # "none" /\ TriggerStep) =>
            (pc' = pc /\ lock' = lock /\ cyc' = cyc /\ result' = result
             /\ UNCHANGED <<store, repo>>)]_vars
    /\ [][(lock # "none" /\ lock' = "none") =>
            \A c \in Ctx : pc'[c] = "idle"]_vars

\* A cycle has returned after a trigger was dropped on it.
C4_Witness == dropped /\ \E c \in Ctx : pc[c] = "returned" /\ lock = c

\* C5: in every cycle whose commit stage fails the push stage is not
\* invoked, the result is success=false with an error, and pending_changes is
\* true when the cycle returns.
C5_CommitFailure ==
    \A c \in Ctx :
        (pc[c] = "returned" /\ result[c].error = "CommitFailed") =>
            /\ ~cyc[c].pushInvoked
            /\ ~result[c].success
            /\ pending_changes

Failed(c) == pc[c] = "returned" /\ ~cyc[c].raised /\ ~result[c].success

\* C7 as stated: every failed cycle leaves pending_changes true.
C7_FailedLeavesPending == \A c \in Ctx : Failed(c) => pending_changes

\* C7 amended: a failed cycle never clears pending_changes (it is true at
\* return whenever it was true at the start or an event arrived meanwhile),
\* no stage is run again inside the cycle, and pending_changes is cleared
\* only by the push stage of a fully successful cycle.
C7_FailedKeepsPending ==
    /\ [](\A c \in Ctx :
            Failed(c) => ((cyc[c].pendAtStart \/ cyc[c].evDuring) => pending_changes))
    /\ [][\A c \in Ctx :
            /\ pc[c] = "commit" => pc'[c] \in {"commit", "push", "returned"}
            /\ pc[c] = "push" => pc'[c] \in {"push", "returned"}
            /\ Failed(c) => pc'[c] \in {"returned", "sent_error"}]_vars
    /\ [][(pending_changes /\ ~pending_changes') =>
            \E c \in Ctx : pc[c] = "push" /\ pc'[c] = "returned"
                           /\ result'[c].success]_vars

\* A cycle that started with pending_changes set has failed in its push.
C7_Witness ==
    \E c \in Ctx :
        Failed(c) /\ cyc[c].pendAtStart /\ result[c].error = "PushFailed"
                  /\ pending_changes

\* A cycle of context c has returned and found no uncommitted changes.
NoChanges(c) ==
    /\ pc[c] = "returned" /\ ~dry_run /\ ~cyc[c].raised
    /\ ~cyc[c].committed /\ result[c].error # "CommitFailed"

\* C8 as stated: a cycle that runs with no changes returns success=true,
\* backup_created=false and no error.
C8_NoChangesSucceeds ==
    \A c \in Ctx : NoChanges(c) => result[c] = Result(TRUE, FALSE, "none")

\* C8 amended: a cycle that runs with no changes makes no commit, is never a
\* commit failure and still runs the push stage; it returns success=true,
\* backup_created=false and no error when the push succeeds, and the push
\* failure otherwise.
C8_NoChangesPushDecides ==
    \A c \in Ctx :
        NoChanges(c) =>
            /\ cyc[c].pushInvoked
            /\ commits = cyc[c].commitsAtStart
            /\ result[c] \in {Result(TRUE, FALSE, "none"),
                              Result(FALSE, FALSE, "PushFailed")}

\* The periodic tick ran a cycle with nothing to commit, and it succeeded.
C8_Witness ==
    /\ NoChanges("periodic")
    /\ result["periodic"] = Result(TRUE, FALSE, "none")

\* C9: the periodic tick is always scheduled at most one period ahead and the
\* clock never passes it; at each tick with pending_changes set and
\* last_backup old enough a cycle is in progress afterwards, started by the
\* tick when the guard was free, whether or not the debounce timer is armed.
C9_PeriodicTickFires ==
    /\ [](now <= nextTick /\ nextTick <= now + TickPeriod)
    /\ [][(nextTick' # nextTick /\ pending_changes
           /\ now - last_backup >= PushInterval) =>
            /\ lock' # "none"
            /\ lock = "none" => pc'["periodic"] = "detect"]_vars

\* The tick started a cycle while the debounce timer, re-armed by a later
\* edit, had not expired.
C9_Witness ==
    /\ pc["periodic"] = "detect"
    /\ sched = "Waiting" /\ rearmed /\ deadline > now

\* C10: in dry_run mode no commit and no push is made, no cycle writes a
\* state marker (last_commit and last_backup keep their defaults,
\* pending_changes is never cleared, last_change is written by the watcher
\* alone), and every cycle returns success=true, backup_created=false.
C10_DryRun ==
    /\ [](dry_run =>
            /\ commits = 0 /\ snapshots = 0
            /\ last_commit = 0 /\ last_backup = 0
            /\ \A c \in Ctx :
                 (pc[c] = "returned" /\ ~cyc[c].raised) =>
                     result[c] = Result(TRUE, FALSE, "none"))
    /\ [][dry_run =>
            /\ pending_changes => pending_changes'
            /\ last_change' # last_change => (last_change' = now /\ pending_changes')]_vars

\* A dry-run cycle has returned while the vault had uncommitted changes.
C10_Witness ==
    /\ dry_run /\ dirty /\ pending_changes
    /\ \E c \in Ctx : pc[c] = "returned" /\ result[c].success

\* ------------------------------------------------------------- the process
\* signal.signal(SIGTERM, shutdown_handler), then signal.signal(SIGINT, ...).
InstallHandler ==
    /\ proc.phase = "started"
    /\ proc' = IF "SIGTERM" \notin proc.handlers
               THEN [proc EXCEPT !.handlers = {"SIGTERM"}]
               ELSE [proc EXCEPT !.handlers = Signals, !.phase = "installed"]
    /\ UNCHANGED <<now, dry_run, offline, store, repo, timer, nextTick, lock, cycle,
                   manualCount, dropped>>

\* The "Online" notification, then _run blocks in watcher.wait().
EnterWait ==
    /\ proc.phase = "installed"
    /\ proc' = [proc EXCEPT !.phase = "waiting"]
    /\ UNCHANGED <<now, dry_run, offline, store, repo, timer, nextTick, lock, cycle,
                   manualCount, dropped>>

\* Variant: a shutdown handler without the shutdown_event test.
shutdown_handlerAgain(p) ==
    [p EXCEPT !.shutdown_event = TRUE, !.stopped = TRUE,
              !.watcherStops = @ + 1, !.healthStops = @ + 1]

\* shutdown_handler: the first call sets shutdown_event and calls
\* watcher.stop() and health_server.stop(); every later call returns at once.
shutdown_handler(p) ==
    IF p.shutdown_event THEN p
    ELSE [p EXCEPT !.shutdown_event = TRUE, !.stopped = TRUE,
                   !.watcherStops = @ + 1, !.healthStops = @ + 1]

\* A signal without an installed handler: SIGTERM ends the process on the
\* spot; SIGINT raises KeyboardInterrupt in _run, which main() swallows, so
\* the process ends without watcher.stop().
Unhandled(p, sig) ==
    [p EXCEPT !.phase = IF sig = "SIGTERM" THEN "killed" ELSE "interrupted",
              !.abandoned = (lock # "none")]

\* Delivery of one signal to the process.  watcher.stop() cancels an armed
\* debounce timer without firing it.
Signal(sig) ==
    /\ Alive
    /\ proc.signals < MaxSignals
    /\ LET p == [proc EXCEPT !.signals = @ + 1]
       IN IF sig \in proc.handlers
          THEN /\ proc' = shutdown_handler(p)
               /\ sched' = IF sched = "Waiting" THEN "Idle" ELSE sched
               /\ deadline' = IF sched = "Waiting" THEN 0 ELSE deadline
          ELSE /\ proc' = Unhandled(p, sig)
               /\ UNCHANGED <<sched, deadline>>
    /\ UNCHANGED <<now, dry_run, offline, store, repo, firedSinceEvent, rearmed,
                   nextTick, lock, cycle, manualCount, dropped>>

\* watcher.wait() returns once the watcher is stopped and no cycle is in
\* flight; _run returns and the process exits.
WaitReturns ==
    /\ proc.phase = "waiting"
    /\ proc.stopped
    /\ lock = "none"
    /\ proc' = [proc EXCEPT !.phase = "exited"]
    /\ UNCHANGED <<now, dry_run, offline, store, repo, timer, nextTick, lock, cycle,
                   manualCount, dropped>>

\* The bounded wait: the shutdown timeout elapses while a cycle is in flight.
ShutdownTimeout ==
    /\ proc.phase = "waiting"
    /\ proc.stopped
    /\ lock # "none"
    /\ proc' = [proc EXCEPT !.phase = "exited", !.abandoned = TRUE]
    /\ UNCHANGED <<now, dry_run, offline, store, repo, timer, nextTick, lock, cycle,
                   manualCount, dropped>>

\* ----------------------------------------------------------------- start
\* The variables of the running loop.
sidecar == <<now, dry_run, store, repo, timer, nextTick, lock, cycle, manualCount,
             dropped, proc>>

\* What an environment variable can hold, a vault path can be, and a marker
\* file can contain.
EnvValues == {"unset", "empty", "set"}
VaultKinds == {"missing", "file", "readonly", "ok"}
MarkerValues(m) == IF m = "pending_changes" THEN {"false", "true"} ELSE {"0", "2"}

\* Variant: only an unset variable counts as missing.
MissingUnsetOnly(env) == {v \in Required : env[v] = "unset"}

\* validate_environment: missing = [var for var in required if not
\* os.environ.get(var)]; an unset and an empty variable are both falsy.
Missing(env) == {v \in Required : env[v] \in {"unset", "empty"}}

\* Variant: every marker is written on every initialisation.
initialize_state_dirOverwrite(f) == [m \in Markers |-> defaults[m]]

\* initialize_state_dir: a marker is written only if its file does not exist.
initialize_state_dir(f) ==
    [m \in Markers |-> IF f[m] = "absent" THEN defaults[m] ELSE f[m]]

\* What running "restic snapshots --quiet" can come to: exit status 0, a
\* non-zero exit status, or no executable to run.
ResticOutcomes == {"ok", "nonzero", "missing"}

\* sys.exit(1), directly or through main()'s except Exception.
Exit1(b) == [b EXCEPT !.phase = "exit", !.status = "1"]

\* The sidecar is started (again) with some environment, vault and tools.
Start(env, vault, gitOk, restic) ==
    /\ boot.phase \in {"off", "exit", "stopped"}
    /\ boot.starts < MaxStarts
    /\ boot' = [phase |-> "env", env |-> env, vault |-> vault, gitOk |-> gitOk,
                restic |-> restic, steps |-> {}, status |-> "none",
                warned |-> FALSE, starts |-> boot.starts + 1]
    /\ UNCHANGED <<sidecar, listing, files, arg, cli>>

\* _run: validate_environment(), then Config.from_env() and _init_sentry().
validate_environment ==
    /\ boot.phase = "env"
    /\ boot' = IF Missing(boot.env) # {} THEN Exit1(boot)
               ELSE [boot EXCEPT !.phase = "state_dir"]
    /\ UNCHANGED <<sidecar, listing, files, arg, cli>>

\* _run: initialize_state_dir(state_dir).
InitStateDir ==
    /\ boot.phase = "state_dir"
    /\ files' = initialize_state_dir(files)
    /\ boot' = [boot EXCEPT !.phase = "vault", !.steps = @ \cup {"state_dir"}]
    /\ UNCHANGED <<sidecar, listing, arg, cli>>

\* validate_vault: the path must exist, be a directory and be writable.
validate_vault ==
    /\ boot.phase = "vault"
    /\ boot' = IF boot.vault # "ok" THEN Exit1(boot)
               ELSE [boot EXCEPT !.phase = "git"]
    /\ UNCHANGED <<sidecar, listing, files, arg, cli>>

\* initialize_git: every git call but the first runs with check=True; its
\* CalledProcessError reaches main(), which exits with status 1.
initialize_git ==
    /\ boot.phase = "git"
    /\ boot' = IF boot.gitOk
               THEN [boot EXCEPT !.phase = "restic", !.steps = @ \cup {"git"}]
               ELSE Exit1(boot)
    /\ UNCHANGED <<sidecar, listing, files, arg, cli>>

\* check_restic: subprocess.run(["restic", "snapshots", "--quiet"]). A
\* non-zero exit is logged as a warning only; when the executable cannot be
\* started subprocess.run raises FileNotFoundError, which main() turns into
\* exit status 1.
check_restic ==
    /\ boot.phase = "restic"
    /\ boot' = IF boot.restic = "missing" THEN Exit1(boot)
               ELSE [boot EXCEPT !.phase = "health",
                                 !.warned = (boot.restic = "nonzero")]
    /\ UNCHANGED <<sidecar, listing, files, arg, cli>>

\* _run: health_server.start().
StartHealth ==
    /\ boot.phase = "health"
    /\ boot' = [boot EXCEPT !.phase = "watcher", !.steps = @ \cup {"health"}]
    /\ UNCHANGED <<sidecar, listing, files, arg, cli>>

\* _run: watcher.start(); from here the run loop is entered.
StartWatcher ==
    /\ boot.phase = "watcher"
    /\ boot' = [boot EXCEPT !.phase = "running", !.steps = @ \cup {"watcher"}]
    /\ UNCHANGED <<sidecar, listing, files, arg, cli>>

\* A state update of the running sidecar: one marker file is rewritten.
WriteMarker(m, v) ==
    /\ boot.phase = "running"
    /\ files' = [files EXCEPT ![m] = v]
    /\ UNCHANGED <<sidecar, listing, boot, arg, cli>>

\* The running sidecar ends.
Stop ==
    /\ boot.phase = "running"
    /\ boot' = [boot EXCEPT !.phase = "stopped", !.status = "0"]
    /\ UNCHANGED <<sidecar, listing, files, arg, cli>>

\* --------------------------------------------------------- detect_source
\* The characters detect_source accepts: the literal "0123456789abcdef".
HexLower == {"0", "1", "2", "3", "4", "5", "6", "7", "8", "9",
             "a", "b", "c", "d", "e", "f"}

\* The characters of the identifiers tried: hexadecimal digits in both
\* cases and characters that are no hexadecimal digit.
Chars == {"0", "9", "a", "f", "A", "F", "g", "t", "-"}

\* n times the character "a", with the character at position k replaced by x.
Filled(n, k, x) == [i \in 1..n |-> IF i = k THEN x ELSE "a"]

\* The identifiers tried: the empty string, "latest", the identifiers of the
\* test suite, and every string of up to MaxLen characters "a" with one
\* character replaced.
Sources ==
    {<<>>, <<"l", "a", "t", "e", "s", "t">>,
     <<"a", "b", "c", "1", "2", "3", "4">>,
     <<"a", "b", "c", "d", "e", "f", "1", "2">>,
     <<"a", "b", "c", "d", "e", "f", "1", "2", "3", "4", "5", "6">>}
    \cup {Filled(n, k, x) : n \in 1..MaxLen, k \in 1..MaxLen, x \in Chars}

\* all(c in "0123456789abcdef" for c in source)
AllHex(source) == \A i \in 1..Len(source) : source[i] \in HexLower

\* detect_source, test by test.
detect_source(source) ==
    IF Len(source) = 40 /\ AllHex(source) THEN "git"
    ELSE IF Len(source) = 8 /\ AllHex(source) THEN "ambiguous"
    ELSE IF AllHex(source) /\ 7 <= Len(source) /\ Len(source) <= 40 THEN "git"
    ELSE "restic"

\* One call of detect_source.
DetectSource(source) ==
    /\ arg.phase = "off"
    /\ arg' = [phase |-> "classified", source |-> source,
               kind |-> detect_source(source)]
    /\ UNCHANGED <<sidecar, listing, boot, files, cli>>

\* ---------------------------------------------------------------- restore
\* File contents are sequences of characters; CR and LF are the two line
\* ending characters, x is any other character.
ContentChars == {"x", "CR", "LF"}

RECURSIVE SeqsUpTo(_)
SeqsUpTo(n) ==
    IF n = 0 THEN {<<>>}
    ELSE LET shorter == SeqsUpTo(n - 1)
         IN shorter \cup {Append(t, ch) : t \in shorter, ch \in ContentChars}

\* What a commit or a snapshot holds for a file: nothing when the file is
\* not in it, else the stored content.
Stored == {Absent} \cup {File(t) : t \in SeqsUpTo(MaxContent)}

\* run_cmd decodes the command's output as text: CR LF and a lone CR are
\* read as LF.
RECURSIVE Decoded(_)
Decoded(raw) ==
    IF raw = <<>> THEN <<>>
    ELSE IF Head(raw) = "CR"
    THEN IF Len(raw) >= 2 /\ raw[2] = "LF"
         THEN <<"LF">> \o Decoded(SubSeq(raw, 3, Len(raw)))
         ELSE <<"LF">> \o Decoded(Tail(raw))
    ELSE <<Head(raw)>> \o Decoded(Tail(raw))

\* os.linesep of the platform the sidecar image runs on.
linesep == <<"LF">>

\* Path.write_text: every LF of the text is written as os.linesep.
RECURSIVE write_text(_)
write_text(text) ==
    IF text = <<>> THEN <<>>
    ELSE (IF Head(text) = "LF" THEN linesep ELSE <<Head(text)>>) \o write_text(Tail(text))

\* run_cmd: return code and decoded standard output of "git show" or
\* "restic dump" for a file that the commit or snapshot holds or not.
run_cmd(stored) ==
    IF ~stored.exists THEN [returncode |-> 1, stdout |-> <<>>]
    ELSE [returncode |-> 0, stdout |-> Decoded(stored.content)]

\* FileNotFoundError raised, or a value returned.
FileNotFoundError == [raised |-> TRUE, value |-> <<>>]
Returned(value) == [raised |-> FALSE, value |-> value]

\* git_show_file / restic_show_file: the output, or FileNotFoundError.
git_show_file(stored) ==
    IF run_cmd(stored).returncode # 0 THEN FileNotFoundError
    ELSE Returned(run_cmd(stored).stdout)

restic_show_file(stored) ==
    IF run_cmd(stored).returncode # 0 THEN FileNotFoundError
    ELSE Returned(run_cmd(stored).stdout)

\* The target after a successful write of text.
Wrote(c, text) ==
    [c EXCEPT !.target = File(write_text(text)), !.parentMade = TRUE, !.writes = @ + 1]

\* Variant: the parent directories of the target are made before the commit
\* is read.
git_restore_fileMkdirFirst(c) ==
    LET content == git_show_file(c.gitRaw)
        made == [c EXCEPT !.calls = Append(@, "git"), !.parentMade = TRUE]
    IN IF content.raised
       THEN [raised |-> TRUE, c |-> made]
       ELSE [raised |-> FALSE, c |-> Wrote(made, content.value)]

\* git_restore_file: content = git_show_file(...), then mkdir and write_text.
\* The record returned carries raised = TRUE for FileNotFoundError.
git_restore_file(c) ==
    LET content == git_show_file(c.gitRaw)
    IN IF content.raised
       THEN [raised |-> TRUE, c |-> [c EXCEPT !.calls = Append(@, "git")]]
       ELSE [raised |-> FALSE,
             c |-> Wrote([c EXCEPT !.calls = Append(@, "git")], content.value)]

\* Variant: the restored text loses its line endings.
restic_restore_fileJoined(c) ==
    LET dump == run_cmd(c.resticRaw)
    IN IF dump.returncode # 0
       THEN [raised |-> TRUE, c |-> [c EXCEPT !.calls = Append(@, "restic")]]
       ELSE [raised |-> FALSE,
             c |-> Wrote([c EXCEPT !.calls = Append(@, "restic")],
                         SelectSeq(dump.stdout, LAMBDA ch : ch # "LF"))]

\* restic_restore_file: its own "restic dump", then mkdir and write_text.
restic_restore_file(c) ==
    LET dump == run_cmd(c.resticRaw)
    IN IF dump.returncode # 0
       THEN [raised |-> TRUE, c |-> [c EXCEPT !.calls = Append(@, "restic")]]
       ELSE [raised |-> FALSE,
             c |-> Wrote([c EXCEPT !.calls = Append(@, "restic")], dump.stdout)]

\* The ends of cmd_restore.
Restored(c, from) == [c EXCEPT !.phase = "done", !.stdout = from, !.status = "0"]
Failed1(c, msg) == [c EXCEPT !.phase = "done", !.stderr = msg, !.status = "1"]

\* The identifiers given to the restore command.
RestoreSources ==
    {<<"a", "b", "c", "d", "e", "f", "1", "2">>,
     <<"a", "b", "c", "1", "2", "3", "4">>,
     <<"l", "a", "t", "e", "s", "t">>}

\* The restore command is run: vault-backup restore SOURCE PATH.
Invoke(source, vaultOk, gitRaw, resticRaw, target) ==
    /\ cli.phase = "off"
    /\ cli' = [NoCli EXCEPT !.phase = "start", !.source = source,
                            !.vaultOk = vaultOk, !.gitRaw = gitRaw,
                            !.resticRaw = resticRaw, !.target = target,
                            !.before = target]
    /\ UNCHANGED <<sidecar, listing, boot, files, arg>>

\* cmd_restore up to its first backend call: detect_source, and _vault_path
\* on the git and the ambiguous branch.
cmd_restore ==
    /\ cli.phase = "start"
    /\ LET kind == detect_source(cli.source)
           c == [cli EXCEPT !.kind = kind]
       IN cli' = IF kind = "restic" THEN [c EXCEPT !.phase = "restic"]
                 ELSE IF ~cli.vaultOk THEN Failed1(c, "vault path is not a directory")
                 ELSE [c EXCEPT !.phase = "git"]
    /\ UNCHANGED <<sidecar, listing, boot, files, arg>>

\* Variant: after a successful git restore the ambiguous branch goes on to
\* the snapshot store.
AfterGitNoReturn(r, kind) ==
    IF ~r.raised
    THEN IF kind = "ambiguous" THEN [r.c EXCEPT !.phase = "restic"]
         ELSE Restored(r.c, "git commit")
    ELSE IF kind = "ambiguous" THEN [r.c EXCEPT !.phase = "restic"]
    ELSE Failed1(r.c, "not found at commit")

\* Variant: the git branch falls back to the snapshot store as well.
AfterGitFallback(r, kind) ==
    IF ~r.raised THEN Restored(r.c, "git commit")
    ELSE [r.c EXCEPT !.phase = "restic"]

\* cmd_restore after git_restore_file: success is printed and the command
\* returns; FileNotFoundError is passed over on the ambiguous branch and
\* fatal on the git branch.
AfterGit(r, kind) ==
    IF ~r.raised THEN Restored(r.c, "git commit")
    ELSE IF kind = "ambiguous" THEN [r.c EXCEPT !.phase = "restic"]
    ELSE Failed1(r.c, "not found at commit")

\* cmd_restore, the git_restore_file call of the ambiguous and the git branch.
GitRestore ==
    /\ cli.phase = "git"
    /\ cli' = AfterGit(git_restore_file(cli), cli.kind)
    /\ UNCHANGED <<sidecar, listing, boot, files, arg>>

\* Variant: the ambiguous branch reports a failed restic restore like the
\* restic branch does.
AfterResticPlain(r, kind) ==
    IF ~r.raised THEN Restored(r.c, "restic snapshot")
    ELSE Failed1(r.c, "Failed to restore from snapshot")

\* cmd_restore after restic_restore_file.
AfterRestic(r, kind) ==
    IF ~r.raised THEN Restored(r.c, "restic snapshot")
    ELSE IF kind = "ambiguous"
    THEN Failed1(r.c, "not found in git commit or restic snapshot")
    ELSE Failed1(r.c, "Failed to restore from snapshot")

\* cmd_restore, the restic_restore_file call of the ambiguous and the restic
\* branch.
ResticRestore ==
    /\ cli.phase = "restic"
    /\ cli' = AfterRestic(restic_restore_file(cli), cli.kind)
    /\ UNCHANGED <<sidecar, listing, boot, files, arg>>

\* ---------------------------------------------------------------- git log
\* Command output is a sequence of characters: LF ends a line, SP is a
\* blank, every other character is printing.
White == {"SP", "LF"}

\* str.strip(): leading and trailing white space is removed.
RECURSIVE LStrip(_)
LStrip(text) ==
    IF text # <<>> /\ Head(text) \in White THEN LStrip(Tail(text)) ELSE text

RECURSIVE RStrip(_)
RStrip(text) ==
    IF text # <<>> /\ text[Len(text)] \in White
    THEN RStrip(SubSeq(text, 1, Len(text) - 1))
    ELSE text

strip(text) == RStrip(LStrip(text))

\* str.split("\n"): the pieces between the line ends, empty ones included.
RECURSIVE split(_)
split(text) ==
    IF \A i \in 1..Len(text) : text[i] # "LF" THEN <<text>>
    ELSE LET k == CHOOSE i \in 1..Len(text) :
                     text[i] = "LF" /\ \A j \in 1..(i - 1) : text[j] # "LF"
         IN <<SubSeq(text, 1, k - 1)>> \o split(SubSeq(text, k + 1, Len(text)))

\* range(start, stop, step)
Range(start, stop, step) ==
    {i \in start..(stop - 1) : (i - start) % step = 0}

GitCommit(hash, short_hash, date, message) ==
    [hash |-> hash, short_hash |-> short_hash, date |-> date, message |-> message]

\* _parse_git_log: lines = output.strip().split("\n"); one GitCommit for each
\* i in range(0, len(lines) - 3, 4), made of lines i .. i + 3.
parse_git_log(output) ==
    LET lines == split(strip(output))
        starts == Range(0, Len(lines) - 3, 4)
    IN [k \in 1..Cardinality(starts) |->
          GitCommit(lines[4 * (k - 1) + 1], lines[4 * (k - 1) + 2],
                    lines[4 * (k - 1) + 3], lines[4 * (k - 1) + 4])]

\* git_log and git_file_history: nothing on a failed command or on blank
\* output, else the parsed output.
git_log(ran) ==
    IF ran.returncode # 0 \/ strip(ran.stdout) = <<>> THEN <<>>
    ELSE parse_git_log(ran.stdout)

git_file_history(ran) ==
    IF ran.returncode # 0 \/ strip(ran.stdout) = <<>> THEN <<>>
    ELSE parse_git_log(ran.stdout)

\* The subjects of the printed tried: empty, one word, two words.
Subjects == {<<>>, <<"m">>, <<"m", "SP", "n">>}

\* The i-th commit git prints, with the given subject.
Digit == <<"1", "2", "3", "4", "5">>
Commit(i, subject) ==
    GitCommit(<<"H", Digit[i]>>, <<"h", Digit[i]>>, <<"d", Digit[i]>>, subject)

\* The histories tried: up to MaxCommits printed.
Histories ==
    UNION {{[i \in 1..n |-> Commit(i, subj[i])] : subj \in [1..n -> Subjects]} :
             n \in 0..MaxCommits}

\* git log --format=%H%n%h%n%aI%n%s: four lines for each commit.
RECURSIVE GitLogOutput(_)
GitLogOutput(printed) ==
    IF printed = <<>> THEN <<>>
    ELSE LET c == Head(printed)
         IN c.hash \o <<"LF">> \o c.short_hash \o <<"LF">> \o c.date \o <<"LF">>
            \o c.message \o <<"LF">> \o GitLogOutput(Tail(printed))

\* One call of git_log: git printed the printed and exited with returncode.
GitLog(printed, returncode) ==
    /\ listing.phase = "off"
    /\ listing' = [phase |-> "done", cmd |-> "git_log", returncode |-> returncode,
                   printed |-> printed, raised |-> "none",
                   value |-> git_log([returncode |-> returncode,
                                      stdout |-> GitLogOutput(printed)])]
    /\ UNCHANGED <<sidecar, boot, files, arg, cli>>

\* One call of git_file_history.
GitFileHistory(printed, returncode) ==
    /\ listing.phase = "off"
    /\ listing' = [phase |-> "done", cmd |-> "git_file_history",
                   returncode |-> returncode, printed |-> printed, raised |-> "none",
                   value |-> git_file_history([returncode |-> returncode,
                                               stdout |-> GitLogOutput(printed)])]
    /\ UNCHANGED <<sidecar, boot, files, arg, cli>>

\* ------------------------------------------------------- restic snapshots
\* The text a restic command prints is empty, blank, text that is not JSON,
\* or a JSON document: null, an object with members, or an array of items.
Text(form, t, items) == [form |-> form, doc |-> [t |-> t, items |-> items]]

\* A function returned a value, or raised the named exception.
Ret(value) == [raised |-> "none", value |-> value]
Raise(exception) == [raised |-> exception, value |-> <<>>]

\* json.loads: the document of a JSON text, JSONDecodeError for any other.
json_loads(text) ==
    IF text.form = "json" THEN Ret(text.doc) ELSE Raise("JSONDecodeError")

\* s[:n]
Take(s, n) == SubSeq(s, 1, IF Len(s) < n THEN Len(s) ELSE n)

\* One snapshot object of "restic snapshots --json": id and time are always
\* there, short_id and the two lists may be left out.
SnapshotIds == {<<"a", "b", "c", "d", "e", "f", "1", "2", "3", "4">>, <<"1", "2">>}
SnapshotObjects ==
    {[id |-> id, time |-> <<"t">> \o Take(id, 1), hasShort |-> hasShort,
      hasLists |-> hasLists] :
        id \in SnapshotIds, hasShort \in BOOLEAN, hasLists \in BOOLEAN}

ResticSnapshot(id, short_id, time, paths, tags) ==
    [id |-> id, short_id |-> short_id, time |-> time, paths |-> paths, tags |-> tags]

\* The ResticSnapshot built from one item of the array.
FromObject(o) ==
    ResticSnapshot(o.id, Take(o.id, 8), o.time,
                   IF o.hasLists THEN <<"/vault">> ELSE <<>>,
                   IF o.hasLists THEN <<"obsidian">> ELSE <<>>)

\* restic_snapshots: [] on a failed command, on blank output and on
\* JSONDecodeError; else the comprehension over the parsed document, which
\* iterates a list and raises TypeError on null and on the members of an
\* object.
restic_snapshots(ran) ==
    IF ran.returncode # 0 \/ ran.stdout.form \in {"empty", "blank"} THEN Ret(<<>>)
    ELSE LET parsed == json_loads(ran.stdout)
         IN IF parsed.raised # "none" THEN Ret(<<>>)
            ELSE IF parsed.value.t # "array" THEN Raise("TypeError")
            ELSE Ret([i \in 1..Len(parsed.value.items) |->
                        FromObject(parsed.value.items[i])])

\* The outputs tried: no text, blanks, text that is no JSON, null, an
\* object, and every array of up to MaxSnapshots snapshot objects.
SnapshotOutputs ==
    {Text("empty", "none", <<>>), Text("blank", "none", <<>>),
     Text("garbage", "none", <<>>), Text("json", "null", <<>>),
     Text("json", "object", <<>>)}
    \cup UNION {{Text("json", "array", items) : items \in [1..n -> SnapshotObjects]} :
                  n \in 0..MaxSnapshots}

\* One call of restic_snapshots.
ResticSnapshots(stdout, returncode) ==
    /\ listing.phase = "off"
    /\ LET r == restic_snapshots([returncode |-> returncode, stdout |-> stdout])
       IN listing' = [phase |-> "done", cmd |-> "restic_snapshots",
                      returncode |-> returncode, printed |-> stdout,
                      raised |-> r.raised, value |-> r.value]
    /\ UNCHANGED <<sidecar, boot, files, arg, cli>>

\* --------------------------------------------------------------- restic ls
\* One line of "restic ls --json": blank, text that is no JSON, a JSON value
\* that is no object (null), the snapshot metadata object, or a node object;
\* a node object may lack every key, or every key but path.
Line(kind, path, full) == [kind |-> kind, path |-> path, full |-> full]

\* The paths of the snapshot's tree that are tried.
NodePaths ==
    {<<"/", "n">>, <<"/", "n", "/", "a">>, <<"/", "n", "2", "/", "a">>, <<"/", "t">>}

LineKinds ==
    {Line("blank", <<>>, FALSE), Line("garbage", <<>>, FALSE),
     Line("null", <<>>, FALSE), Line("snapshot", <<>>, FALSE),
     Line("node", <<>>, FALSE)}
    \cup {Line("node", p, full) : p \in NodePaths, full \in BOOLEAN}

ResticEntry(path, type, size, mtime) ==
    [path |-> path, type |-> type, size |-> size, mtime |-> mtime]

\* obj.get(key, default) for the four keys of a node object.
EntryOf(line) ==
    IF line.full THEN ResticEntry(line.path, "dir", 7, "t")
    ELSE ResticEntry(line.path, "file", 0, "")

\* The loop of restic_ls over the lines of the stripped output: blank lines
\* and lines json.loads rejects are skipped, as is the snapshot metadata
\* object; the test '"struct_type" in obj' raises TypeError for null.
RECURSIVE Entries(_)
Entries(lines) ==
    IF lines = <<>> THEN Ret(<<>>)
    ELSE LET line == Head(lines)
             later == Entries(Tail(lines))
         IN IF line.kind \in {"blank", "garbage"} THEN later
            ELSE IF line.kind = "null" THEN Raise("TypeError")
            ELSE IF line.kind = "snapshot" THEN later
            ELSE IF later.raised # "none" THEN later
            ELSE Ret(<<EntryOf(line)>> \o later.value)

\* path.rstrip("/")
RECURSIVE rstrip(_)
rstrip(path) ==
    IF path # <<>> /\ path[Len(path)] = "/"
    THEN rstrip(SubSeq(path, 1, Len(path) - 1))
    ELSE path

\* str.startswith
startswith(s, prefix) ==
    Len(prefix) <= Len(s) /\ SubSeq(s, 1, Len(prefix)) = prefix

\* restic_ls: ValueError on a failed command; else the entries of the
\* output, filtered by the prefix path.rstrip("/") unless path is "/".
restic_ls(ran, path) ==
    IF ran.returncode # 0 THEN Raise("ValueError")
    ELSE LET entries == Entries(ran.stdout)
         IN IF entries.raised # "none" THEN entries
            ELSE IF path # <<"/">>
            THEN Ret(SelectSeq(entries.value,
                               LAMBDA e : startswith(e.path, rstrip(path))))
            ELSE entries

\* The outputs tried: up to MaxLines lines.
LsOutputs == UNION {[1..n -> LineKinds] : n \in 0..MaxLines}

\* The path arguments tried: the root, a directory, the same with a final "/".
LsPaths == {<<"/">>, <<"/", "n">>, <<"/", "n", "/">>}

\* One call of restic_ls.
ResticLs(stdout, returncode, path) ==
    /\ listing.phase = "off"
    /\ LET r == restic_ls([returncode |-> returncode, stdout |-> stdout], path)
       IN listing' = [phase |-> "done", cmd |-> "restic_ls",
                      returncode |-> returncode, printed |-> stdout, path |-> path,
                      raised |-> r.raised, value |-> r.value]
    /\ UNCHANGED <<sidecar, boot, files, arg, cli>>

\* The positions at which on_changes has returned normally.
Sent == {"sent_success", "sent_error", "sent_none"}

\* C11: no failure of a backup cycle escapes on_changes: whatever run_backup
\* returns or raises, on_changes returns normally, the guard is released and
\* the scheduler is ready for the next trigger.
C11_NoFailureEscapes ==
    /\ [](\A c \in Ctx : pc[c] # "escaped")
    /\ [][\A c \in Ctx :
            /\ (pc[c] = "returned" /\ pc'[c] # "returned") => pc'[c] \in Sent
            /\ (pc[c] \in Sent /\ pc'[c] # pc[c]) =>
                 (pc'[c] = "idle" /\ lock' = "none" /\ sched' # "Firing")]_vars

\* run_backup raised and on_changes has handled it and returned.
C11_Witness == \E c \in Ctx : pc[c] = "sent_error" /\ cyc[c].raised

C13_GracefulShutdown ==
    /\ [](proc.signals > 0 => proc.stopped)
    /\ [](proc.stopped => sched # "Waiting")
    /\ [][proc.stopped => \A c \in Ctx : pc[c] = "idle" => pc'[c] = "idle"]_vars
    /\ [](~Alive => (lock = "none" /\ ~proc.abandoned))

\* C14: a configuration error is fatal before the run loop: with
\* RESTIC_REPOSITORY or RESTIC_PASSWORD unset or empty the process exits with
\* status 1 before the state directory is initialised, git is initialised,
\* and the health server or the watcher is started.
C14_ConfigErrorFatal ==
    ((\E v \in Required : boot.env[v] \in {"unset", "empty"})
        /\ boot.phase \notin {"off", "env"})
    => (boot.phase = "exit" /\ boot.status = "1" /\ boot.steps = {})

\* A start with the repository set and the password empty has ended.
C14_Witness ==
    /\ boot.phase = "exit"
    /\ boot.env["RESTIC_REPOSITORY"] = "set"
    /\ boot.env["RESTIC_PASSWORD"] = "empty"

\* C15: the four markers default to "0", "0", "0", "false" on first
\* initialisation and survive restarts: initialize_state_dir fills in the
\* markers that do not exist and leaves every existing marker as it is, and
\* nothing but a state update of the running sidecar rewrites a marker.
C15_MarkersSurvive ==
    [][/\ (files = NoFiles /\ files' # files) => files' = defaults
       /\ \A m \in Markers :
            /\ (files[m] # "absent" /\ boot.phase # "running")
                   => files'[m] = files[m]
            /\ (files[m] = "absent" /\ files'[m] # "absent" /\ boot.phase # "running")
                   => files'[m] = defaults[m]]_vars

\* After a restart and its re-initialisation a marker holds a value that is
\* not its default.
C15_Witness ==
    /\ boot.starts = 2
    /\ "state_dir" \in boot.steps
    /\ \E m \in Markers : files[m] \notin {"absent", defaults[m]}

\* The hexadecimal digits, in either case.
HexDigits == HexLower \cup {"A", "B", "C", "D", "E", "F"}

\* The string consists of hexadecimal digits only.
IsHexadecimal(source) == \A i \in 1..Len(source) : source[i] \in HexDigits

\* C16: detect_source returns "git" for every 40-character hexadecimal string
\* and for every hexadecimal string of length 7 to 39 other than length 8.
C16_GitForHex ==
    (arg.phase = "classified" /\ IsHexadecimal(arg.source)
        /\ (Len(arg.source) = 40
            \/ (7 <= Len(arg.source) /\ Len(arg.source) <= 39 /\ Len(arg.source) # 8)))
    => arg.kind = "git"

\* C17: detect_source returns "ambiguous" for every hexadecimal string of
\* exactly 8 characters, and for no other string.
C17_AmbiguousIffHex8 ==
    arg.phase = "classified"
    => (arg.kind = "ambiguous" <=> (IsHexadecimal(arg.source) /\ Len(arg.source) = 8))

\* C18: detect_source returns "restic" for every string that contains a
\* non-hexadecimal character or whose length is outside 7..40, and for no
\* hexadecimal string with a length in 7..40.
C18_ResticOtherwise ==
    arg.phase = "classified"
    => LET inRange == 7 <= Len(arg.source) /\ Len(arg.source) <= 40
       IN /\ (~IsHexadecimal(arg.source) \/ ~inRange) => arg.kind = "restic"
          /\ (IsHexadecimal(arg.source) /\ inRange) => arg.kind # "restic"

\* C19: for an ambiguous identifier restore tries version control first: if
\* the git restore succeeds the snapshot store is never invoked and the
\* outcome is reported as "git commit"; if it fails with not-found the
\* snapshot store is tried next and a success is reported as "restic snapshot".
C19_GitFirst ==
    (cli.kind = "ambiguous" /\ cli.vaultOk /\ cli.phase \in {"git", "restic", "done"})
    => /\ cli.calls # <<>> => cli.calls[1] = "git"
       /\ cli.phase = "git" => cli.calls = <<>>
       /\ (cli.phase # "git" /\ cli.gitRaw.exists)
             => (cli.phase = "done" /\ cli.calls = <<"git">>
                 /\ cli.stdout = "git commit" /\ cli.status = "0")
       /\ (cli.phase = "done" /\ ~cli.gitRaw.exists)
             => cli.calls = <<"git", "restic">>
       /\ (cli.phase = "done" /\ ~cli.gitRaw.exists /\ cli.resticRaw.exists)
             => (cli.stdout = "restic snapshot" /\ cli.status = "0")

\* An ambiguous identifier was not found in git and restored from restic.
C19_Witness ==
    /\ cli.kind = "ambiguous"
    /\ cli.phase = "done"
    /\ cli.calls = <<"git", "restic">>
    /\ cli.stdout = "restic snapshot"

C24_SingleBackend ==
    /\ (cli.kind = "git" /\ cli.phase \in {"git", "restic", "done"})
        => /\ cli.phase # "restic"
           /\ \A i \in 1..Len(cli.calls) : cli.calls[i] = "git"
           /\ (cli.phase = "done" /\ cli.vaultOk /\ ~cli.gitRaw.exists)
                => (cli.calls = <<"git">> /\ cli.status = "1" /\ cli.stdout = ""
                    /\ cli.stderr = "not found at commit")
    /\ (cli.kind = "restic" /\ cli.phase \in {"git", "restic", "done"})
        => /\ cli.phase # "git"
           /\ \A i \in 1..Len(cli.calls) : cli.calls[i] = "restic"
           /\ (cli.phase = "done" /\ ~cli.resticRaw.exists)
                => (cli.calls = <<"restic">> /\ cli.status = "1" /\ cli.stdout = ""
                    /\ cli.stderr = "Failed to restore from snapshot")

\* A git identifier whose commit lacks the file, while the snapshot store
\* holds it: the command has failed after the one git call.
C24_Witness ==
    /\ cli.kind = "git"
    /\ cli.phase = "done"
    /\ cli.status = "1"
    /\ cli.calls = <<"git">>
    /\ cli.resticRaw.exists

\* C25: for an ambiguous identifier, when both the git restore and the restic
\* restore fail with not-found, cmd_restore prints "not found in git commit
\* or restic snapshot" to stderr, exits with status 1 and prints no
\* "Restored" message.
C25_BothFail ==
    (cli.kind = "ambiguous" /\ cli.phase = "done" /\ cli.vaultOk
        /\ ~cli.gitRaw.exists /\ ~cli.resticRaw.exists)
    => /\ cli.stderr = "not found in git commit or restic snapshot"
       /\ cli.status = "1"
       /\ cli.stdout = ""
       /\ cli.calls = <<"git", "restic">>

\* An ambiguous identifier that neither store holds has been given up.
C25_Witness ==
    /\ cli.kind = "ambiguous"
    /\ cli.phase = "done"
    /\ cli.stderr = "not found in git commit or restic snapshot"

\* C29: a failed restore leaves the target untouched: when the external
\* command exits non-zero the restore function raises without creating the
\* target's parent directories and without creating or modifying the target;
\* in the ambiguous git-then-restic sequence the target is written at most
\* once, by the backend that succeeded.
C29_FailedRestoreNoWrite ==
    cli.phase \in {"git", "restic", "done"}
    => /\ cli.writes <= 1
       /\ (cli.writes = 0) => (cli.target = cli.before /\ ~cli.parentMade)
       /\ (cli.phase = "done" /\ cli.status = "1") => cli.writes = 0
       /\ (cli.writes = 1)
            => /\ cli.phase = "done" /\ cli.status = "0"
               /\ LET last == cli.calls[Len(cli.calls)]
                  IN IF last = "git" THEN cli.gitRaw.exists ELSE cli.resticRaw.exists
       /\ \A i \in 1..(Len(cli.calls) - 1) :
            IF cli.calls[i] = "git" THEN ~cli.gitRaw.exists ELSE ~cli.resticRaw.exists

\* Both restores of an ambiguous identifier failed over an existing target.
C29_Witness ==
    /\ cli.phase = "done"
    /\ cli.status = "1"
    /\ cli.calls = <<"git", "restic">>
    /\ cli.before.exists
    /\ cli.target = cli.before

\* C26: an unavailable restic repository at startup is non-fatal: whenever
\* the startup restic check does not succeed, the sidecar logs a warning,
\* continues, and still starts the health server and the watcher.
C26_ResticNonFatal ==
    ("git" \in boot.steps /\ boot.restic # "ok" /\ boot.phase # "restic")
    => /\ boot.warned
       /\ boot.phase \in {"health", "watcher", "running", "stopped"}
       /\ (boot.phase \in {"running", "stopped"})
            => {"health", "watcher"} \subseteq boot.steps

\* C27: for every invocation of on_changes at most one notification is sent:
\* a success notification exactly when the cycle's result has success and
\* backup_created, an error notification exactly when success is false or the
\* cycle raised, and none when the cycle succeeded without creating a backup.
C27_AtMostOneNotification ==
    \A c \in Ctx :
        pc[c] \in Sent
        => /\ cyc[c].notifyCalls <= 1
           /\ cyc[c].notifyCalls = (IF pc[c] = "sent_none" THEN 0 ELSE 1)
           /\ (pc[c] = "sent_success")
                <=> (~cyc[c].raised /\ result[c].success /\ result[c].backup_created)
           /\ (pc[c] = "sent_error")
                <=> (cyc[c].raised \/ ~result[c].success)
           /\ (pc[c] = "sent_none")
                <=> (~cyc[c].raised /\ result[c].success /\ ~result[c].backup_created)

\* A cycle succeeded without creating a backup and on_changes has returned
\* without calling the notifier.
C27_Witness ==
    \E c \in Ctx :
        /\ pc[c] = "sent_none"
        /\ result[c].success
        /\ ~result[c].backup_created
        /\ cyc[c].notifyCalls = 0

\* C28: shutdown is idempotent: for any number and interleaving of SIGTERM and
\* SIGINT deliveries after the handlers are installed, watcher.stop() and
\* health_server.stop() are each called exactly once, on the first signal,
\* and every later signal changes nothing.
C28_ShutdownIdempotent ==
    /\ [](/\ proc.watcherStops <= 1
          /\ proc.healthStops <= 1
          /\ proc.shutdown_event =>
                (proc.watcherStops = 1 /\ proc.healthStops = 1)
          /\ (proc.handlers = Signals /\ proc.signals > 0) =>
                (proc.watcherStops = 1 /\ proc.healthStops = 1))
    /\ [][(proc.handlers = Signals /\ proc'.signals > proc.signals) =>
            IF proc.shutdown_event
            THEN /\ proc' = [proc EXCEPT !.signals = @ + 1]
                 /\ UNCHANGED <<now, dry_run, offline, store, repo, timer,
                                nextTick, lock, cycle, manualCount, dropped>>
            ELSE /\ proc.signals = 0
                 /\ proc'.watcherStops = 1
                 /\ proc'.healthStops = 1]_vars

\* A second signal has been delivered to the installed handler.
C28_Witness ==
    /\ proc.handlers = Signals
    /\ proc.signals = 2
    /\ proc.watcherStops = 1
    /\ proc.healthStops = 1

\* C21: git_log and git_file_history return the commit records in the order
\* git printed them, one record per commit: for an output of n complete
\* 4-line records the result has exactly n entries, the i-th holding the four
\* lines of the i-th record.
C21_OneCommitPerRecord ==
    (listing.phase = "done" /\ listing.cmd \in {"git_log", "git_file_history"}
        /\ listing.returncode = 0)
    => /\ Len(listing.value) = Len(listing.printed)
       /\ \A i \in 1..Len(listing.printed) : listing.value[i] = listing.printed[i]

\* C22: restic_snapshots returns the empty list and raises nothing whenever
\* the restic command exits non-zero, prints nothing, or prints text that is
\* not valid JSON; otherwise it returns one ResticSnapshot per listed
\* snapshot, in order.
C22_SnapshotsNeverRaise ==
    (listing.phase = "done" /\ listing.cmd = "restic_snapshots")
    => LET out == listing.printed
           unusable == listing.returncode # 0 \/ out.form # "json"
       IN /\ listing.raised = "none"
          /\ unusable => listing.value = <<>>
          /\ ~unusable =>
                /\ Len(listing.value) = Len(out.doc.items)
                /\ \A i \in 1..Len(out.doc.items) :
                      /\ listing.value[i].id = out.doc.items[i].id
                      /\ listing.value[i].time = out.doc.items[i].time

\* The paths of a sequence of lines or entries, in order.
PathsOf(seq) == [i \in 1..Len(seq) |-> seq[i].path]

\* The node objects among the lines printed, in output order.
Listed == SelectSeq(listing.printed, LAMBDA line : line.kind = "node")

\* C23: restic_ls raises ValueError when the restic command exits non-zero;
\* otherwise it returns, in output order, exactly one ResticEntry for every
\* output line that is a JSON object other than the snapshot-metadata line,
\* skipping blank lines and lines that are not valid JSON.
C23_OneEntryPerObject ==
    (listing.phase = "done" /\ listing.cmd = "restic_ls")
    => IF listing.returncode # 0 THEN listing.raised = "ValueError"
       ELSE /\ listing.raised = "none"
            /\ PathsOf(listing.value) = PathsOf(Listed)

\* q is the path dir (final "/" aside) or lies beneath the directory dir.
Beneath(dir, q) ==
    LET d == rstrip(dir)
    IN q = d \/ (Len(q) > Len(d) /\ SubSeq(q, 1, Len(d)) = d /\ q[Len(d) + 1] = "/")

\* C30: for every path P other than "/", every entry returned by restic_ls
\* is P itself or lies beneath directory P, and every listed entry that is P
\* or lies beneath P is returned; with path "/" every listed entry is
\* returned.
C30_PathFilter ==
    (listing.phase = "done" /\ listing.cmd = "restic_ls" /\ listing.raised = "none")
    => IF listing.path = <<"/">> THEN PathsOf(listing.value) = PathsOf(Listed)
       ELSE /\ \A i \in 1..Len(listing.value) :
                  Beneath(listing.path, listing.value[i].path)
            /\ PathsOf(listing.value)
                 = PathsOf(SelectSeq(Listed, LAMBDA line : Beneath(listing.path, line.path)))

Next ==
    \/ \E path \in Paths : FsEvent(path)
    \/ Tick
    \/ DebounceExpiry
    \/ PeriodicTick
    \/ ManualTrigger
    \/ \E c \in Ctx : DetectStage(c)
    \/ \E c \in Ctx, ok \in BOOLEAN : CommitStage(c, ok)
    \/ \E c \in Ctx, ok \in BOOLEAN : PushStage(c, ok)
    \/ \E c \in Ctx : RaiseStage(c)
    \/ \E c \in Ctx, d1 \in BOOLEAN, d2 \in BOOLEAN : on_changes(c, d1, d2)
    \/ \E c \in Ctx : Release(c)

Spec == Init /\ [][Next]_vars

\* The sidecar from the return of watcher.start() to the end of the process.
InitShutdown == Constructed /\ proc = Started /\ OfflineIdle

NextShutdown ==
    \/ Next
    \/ InstallHandler
    \/ EnterWait
    \/ \E sig \in Signals : Signal(sig)
    \/ WaitReturns
    \/ ShutdownTimeout

SpecShutdown == InitShutdown /\ [][NextShutdown]_vars

\* Starts and restarts of the sidecar over a state directory that is empty or
\* left behind by an earlier run.
InitStartup ==
    /\ Constructed
    /\ dry_run = FALSE
    /\ proc = NotRunning
    /\ boot = NoBoot
    /\ files \in {NoFiles, defaults, [defaults EXCEPT !["last_backup"] = "absent"]}
    /\ arg = NoArg
    /\ cli = NoCli
    /\ listing = NoListing

NextStartup ==
    \/ \E env \in [Required -> EnvValues], vault \in VaultKinds,
          gitOk \in BOOLEAN, restic \in ResticOutcomes :
              Start(env, vault, gitOk, restic)
    \/ validate_environment
    \/ InitStateDir
    \/ validate_vault
    \/ initialize_git
    \/ check_restic
    \/ StartHealth
    \/ StartWatcher
    \/ \E m \in Markers : \E v \in MarkerValues(m) : WriteMarker(m, v)
    \/ Stop

SpecStartup == InitStartup /\ [][NextStartup]_vars

\* Calls of detect_source on the identifiers of Sources.
InitDetect ==
    /\ Constructed
    /\ dry_run = FALSE
    /\ proc = NotRunning
    /\ boot = NoBoot
    /\ files = NoFiles
    /\ arg = NoArg
    /\ cli = NoCli
    /\ listing = NoListing

NextDetect == \E source \in Sources : DetectSource(source)

SpecDetect == InitDetect /\ [][NextDetect]_vars

\* Runs of the restore command.
InitRestore ==
    /\ Constructed
    /\ dry_run = FALSE
    /\ proc = NotRunning
    /\ boot = NoBoot
    /\ files = NoFiles
    /\ arg = NoArg
    /\ cli = NoCli
    /\ listing = NoListing

NextRestore ==
    \/ \E source \in RestoreSources, vaultOk \in BOOLEAN, gitRaw \in Stored,
          resticRaw \in Stored, target \in {Absent, File(<<"x">>)} :
            Invoke(source, vaultOk, gitRaw, resticRaw, target)
    \/ cmd_restore
    \/ GitRestore
    \/ ResticRestore

SpecRestore == InitRestore /\ [][NextRestore]_vars

\* Calls of the listing functions of restore.py.
InitBrowse ==
    /\ Constructed
    /\ dry_run = FALSE
    /\ proc = NotRunning
    /\ boot = NoBoot
    /\ files = NoFiles
    /\ arg = NoArg
    /\ cli = NoCli
    /\ listing = NoListing

NextBrowse ==
    \/ \E printed \in Histories, returncode \in {0, 128} : GitLog(printed, returncode)
    \/ \E printed \in Histories, returncode \in {0, 128} :
          GitFileHistory(printed, returncode)
    \/ \E stdout \in SnapshotOutputs, returncode \in {0, 1} :
          ResticSnapshots(stdout, returncode)
    \/ \E stdout \in LsOutputs, returncode \in {0, 1}, path \in LsPaths :
          ResticLs(stdout, returncode, path)

SpecBrowse == InitBrowse /\ [][NextBrowse]_vars

====
